---- MODULE Spec2Model ----
(***************************************************************************)
(* The download task scheduler of app.py: the task registry                *)
(* (download_status), the cancellation flags (download_cancel), the FIFO   *)
(* line (download_queue), the slot counter (active_downloads), the request *)
(* handlers that feed them and the executor threads (_do_download).        *)
(*                                                                         *)
(* Granularity.  Every section the code runs under queue_lock is one step. *)
(* api_download and api_retry are two steps each: the part up to and       *)
(* including get_queue_status, and the dispatch that follows it            *)
(* (Thread.start, or one add_to_queue per entry).  api_cancel and          *)
(* api_clear_tasks are one step.  An executor thread steps through: slot   *)
(* acquisition and directory setup, the start of each task of its batch,   *)
(* each progress callback, the end of each transfer with the finalisation  *)
(* of the record, the release of the slot, and each turn of process_queue. *)
(* Threads and in-flight requests are anonymous, so both are kept as bags. *)
(*                                                                         *)
(* SpecCallback refines the progress callback into its tests and its       *)
(* state.update, and keeps the transfers run_async timed out on.           *)
(* SpecStream adds one observer of /api/progress, SpecExisting a download  *)
(* directory with a file from an earlier run, SpecFive Scenario A.         *)
(* SpecCache runs the listing requests (api_videos, api_replies and        *)
(* api_thumb) over the message cache and the listing cache, SpecConnect    *)
(* the callers of ensure_tg_connection against a connection that drops.    *)
(* SpecDrain is SpecFull with every thread running on, for the liveness    *)
(* of the queue.                                                           *)
(***************************************************************************)
EXTENDS Integers, Sequences, FiniteSets, Bags, TLC

\* ------------------------------------------------------------- bounds
\* Requests (download per task, retry, cancel, clear) the environment sends in
\* one run.
MaxEvents == 1
\* Size in bytes of every item (info["size"]).
ItemSize == 2

\* The capacities of the two caches, scaled down: 2000 messages and 30
\* listings in the code, and of the eviction of the message cache, which
\* removes min(100, len - 2000 + 50) entries in the code.
MAX_MSG_CACHE_SIZE == 3
MAX_VIDEO_CACHE_SIZE == 2
EvictMost == 2
EvictSlack == 1
\* Listing, reply and thumbnail requests of one run.
MaxListings == 3
\* The last value of the clock (time.time(), in seconds) in a run.
MaxClock == 60

\* Task identifiers "entity_id:msg_id" the requests of a run name.
TaskIds == {1, 2}
\* The message_ids lists a download request may carry.
Batches == {<<1>>, <<2>>, <<1, 2>>}

\* ---------------------------------------------------------- constants
MAX_CONCURRENT_DOWNLOADS == 3
TERMINAL_STATES == {"done", "skipped", "error", "cancelled"}
\* Seconds between two reconnect attempts ("now - _last_reconnect_attempt < 8")
\* and the timeout of the wait for one attempt (".result(timeout=45)").
RECONNECT_BACKOFF == 8
RECONNECT_TIMEOUT == 45
\* Python's None in queue_position (positions are 1-based).
None == 0
\* Strings the code stores in the "error" field.
ERR_CANCELLED == "cancelled"
ERR_NOT_FOUND == "not found"
\* str(e) of the failures run_async can raise during a transfer: the empty
\* string is str() of the TimeoutError of future.result(timeout=...).
TransferErrors == {"", "disconnected"}

VARIABLES
  download_status,   \* dict task_id -> status record
  download_cancel,   \* set of task ids whose cancel flag is set
  download_queue,    \* list of queue entries (their task ids)
  active_downloads,  \* slots taken
  messages_cache,    \* task ids _get_cached_message resolves
  files,             \* task id -> "none" | "partial" | "full": the target file
  fetched,           \* task ids tg_client.download_media was called for
  threads,           \* bag of executor threads [pc, batch, idx, got]
  requests,          \* bag of api_download/api_retry calls past get_queue_status
  crashed,           \* executor threads ended by an uncaught exception
  budget,            \* requests the environment may still send, see Events
  response,          \* what the last request served was answered
  stream,            \* the observer of /api/progress and its last payload
  videos_cache,      \* _videos_cache: its entries in insertion order
  scans,             \* calls of tg_client.iter_messages made so far
  current_entity_cache, \* _current_entity_cache["entity_id"], None when unset
  clock,             \* time.time()
  is_connected,      \* tg_client.is_connected()
  last_reconnect_attempt,  \* _last_reconnect_attempt
  reconnect_lock,    \* _reconnect_lock is held
  callers,           \* the threads that call ensure_tg_connection
  attempts           \* _reconnect() coroutines running in tg_loop

\* The connection to the external service and its reconnects.
connection == <<clock, is_connected, last_reconnect_attempt, reconnect_lock,
                callers, attempts>>

\* The state outside the download scheduler.
service == <<videos_cache, scans, current_entity_cache, connection>>

vars == <<download_status, download_cancel, download_queue, active_downloads,
          messages_cache, files, fetched, threads, requests, crashed, budget,
          response, stream, service>>

\* ------------------------------------------------------------ helpers
\* d[k] = v on a Python dict.
SetItem(d, k, v) == [x \in (DOMAIN d) \cup {k} |-> IF x = k THEN v ELSE d[x]]
\* d.pop(k, None)
PopItem(d, k) == [x \in (DOMAIN d) \ {k} |-> d[x]]
\* d.get(k, default)
GetItem(d, k, default) == IF k \in DOMAIN d THEN d[k] ELSE default

One(x) == SetToBag({x})
NewThread(batch) == [pc |-> "slot", batch |-> batch, idx |-> 1, got |-> 0]
\* A thread past its loop over task_items no longer reads its arguments.
Releasing == [pc |-> "release", batch |-> <<>>, idx |-> 0, got |-> 0]
Draining == [pc |-> "drain", batch |-> <<>>, idx |-> 0, got |-> 0]

\* The fresh record api_download and api_retry store.
WaitingRecord(total_bytes) ==
  [status |-> "waiting", progress |-> 0, error |-> "",
   downloaded_bytes |-> 0, total_bytes |-> total_bytes,
   queue_position |-> None, queue_size |-> 0]

\* _get_cached_message(msg_id, entity_id) is not None
Resolvable(tid) == tid \in messages_cache

\* _update_queue_positions_locked: the loop over enumerate(download_queue, 1),
\* from index i on.
RECURSIVE UpdateFrom(_, _, _)
UpdateFrom(ds, q, i) ==
  IF i > Len(q) THEN ds
  ELSE LET tid == q[i] IN
       IF tid \notin DOMAIN ds THEN UpdateFrom(ds, q, i + 1)
       ELSE LET s1 == SetItem(SetItem(ds[tid], "queue_position", i),
                              "queue_size", Len(q))
                s2 == IF GetItem(s1, "status", "") \notin TERMINAL_STATES
                         /\ GetItem(s1, "status", "") # "downloading"
                      THEN SetItem(s1, "status", "queued")
                      ELSE s1
            IN UpdateFrom(SetItem(ds, tid, s2), q, i + 1)

update_queue_positions_locked(ds, q) == UpdateFrom(ds, q, 1)

\* A request of the environment, counted: a download request counts once for
\* each task it names, every other request once.
Events(n) ==
  /\ n <= budget
  /\ budget' = budget - n

Event == Events(1)

\* ----------------------------------------------------- request handlers
\* The loop of api_download over message_ids: every task gets a fresh
\* "waiting" record, whatever record it had, and loses its cancel flag.
RECURSIVE CreateRecords(_, _, _)
CreateRecords(ds, b, i) ==
  IF i > Len(b) THEN ds
  ELSE CreateRecords(
         SetItem(ds, b[i],
                 WaitingRecord(IF Resolvable(b[i]) THEN ItemSize ELSE 0)),
         b, i + 1)

Range(b) == {b[i] : i \in DOMAIN b}

\* get_queue_status()["active"] < MAX_CONCURRENT_DOWNLOADS
SlotFree == active_downloads < MAX_CONCURRENT_DOWNLOADS

\* api_download up to get_queue_status: the records, the flags, and the
\* decision between a thread and the queue.
api_download(b) ==
  /\ Events(Len(b))
  /\ download_status' = CreateRecords(download_status, b, 1)
  /\ download_cancel' = download_cancel \ Range(b)
  /\ requests' = requests (+) One([kind |-> "download", tasks |-> b, idx |-> 1,
                                   direct |-> SlotFree])
  /\ UNCHANGED <<download_queue, active_downloads, fetched, messages_cache, service, stream, files,
                 threads, crashed>>
  /\ response' = <<"download", Len(b)>>

\* What api_retry answers: an error when the message is not resolvable.
api_retry_response(tid) == IF Resolvable(tid) THEN "ok" ELSE "error"

\* api_retry that keeps the stored record and only sets its state.
api_retry_keeps_record(tid) ==
  /\ Event
  /\ IF api_retry_response(tid) = "error"
     THEN UNCHANGED <<download_status, download_cancel, download_queue,
                      active_downloads, fetched, messages_cache, service, stream, files, threads,
                      requests, crashed>>
     ELSE /\ download_cancel' = download_cancel \ {tid}
          /\ download_status' =
               SetItem(download_status, tid,
                       SetItem(GetItem(download_status, tid, WaitingRecord(ItemSize)),
                               "status", "waiting"))
          /\ requests' = requests (+) One([kind |-> "retry", tasks |-> <<tid>>,
                                           idx |-> 1, direct |-> SlotFree])
          /\ UNCHANGED <<download_queue, active_downloads, fetched, messages_cache, service, stream,
                         files, threads, crashed>>
  /\ response' = <<"retry", api_retry_response(tid)>>

\* api_retry that stores the new record before it resolves the message.
api_retry_stores_first(tid) ==
  /\ Event
  /\ download_cancel' = download_cancel \ {tid}
  /\ download_status' = SetItem(download_status, tid, WaitingRecord(ItemSize))
  /\ IF api_retry_response(tid) = "error"
     THEN UNCHANGED requests
     ELSE requests' = requests (+) One([kind |-> "retry", tasks |-> <<tid>>,
                                        idx |-> 1, direct |-> SlotFree])
  /\ UNCHANGED <<download_queue, active_downloads, fetched, messages_cache, service, stream, files,
                 threads, crashed>>
  /\ response' = <<"retry", api_retry_response(tid)>>

\* api_retry up to get_queue_status, for a request that names task_id.
api_retry(tid) ==
  /\ Event
  /\ IF api_retry_response(tid) = "error"
     THEN UNCHANGED <<download_status, download_cancel, download_queue,
                      active_downloads, fetched, messages_cache, service, stream, files, threads,
                      requests, crashed>>
     ELSE /\ download_cancel' = download_cancel \ {tid}
          /\ download_status' =
               SetItem(download_status, tid, WaitingRecord(ItemSize))
          /\ requests' = requests (+) One([kind |-> "retry", tasks |-> <<tid>>,
                                           idx |-> 1, direct |-> SlotFree])
          /\ UNCHANGED <<download_queue, active_downloads, fetched, messages_cache, service, stream,
                         files, threads, crashed>>
  /\ response' = <<"retry", api_retry_response(tid)>>

\* threading.Thread(target=_do_download, args=(tasks, dialog_name)).start()
start_thread(r) ==
  /\ r.direct
  /\ threads' = threads (+) One(NewThread(r.tasks))
  /\ requests' = requests (-) One(r)
  /\ UNCHANGED <<download_status, download_cancel, download_queue,
                 active_downloads, fetched, messages_cache, service, stream, files, crashed>>
  /\ UNCHANGED <<budget, response>>

\* add_to_queue that inserts at the head of the queue.
add_to_queue_front(r) ==
  /\ ~r.direct
  /\ download_queue' = <<r.tasks[r.idx]>> \o download_queue
  /\ download_status' =
       update_queue_positions_locked(download_status, download_queue')
  /\ requests' = IF r.idx = Len(r.tasks)
                 THEN requests (-) One(r)
                 ELSE (requests (-) One(r)) (+) One([r EXCEPT !.idx = r.idx + 1])
  /\ UNCHANGED <<download_cancel, active_downloads, fetched, messages_cache, service, stream,
                 files, threads, crashed>>
  /\ UNCHANGED <<budget, response>>

\* add_to_queue(task), for the next entry of the request.
add_to_queue(r) ==
  /\ ~r.direct
  /\ download_queue' = Append(download_queue, r.tasks[r.idx])
  /\ download_status' =
       update_queue_positions_locked(download_status, download_queue')
  /\ requests' = IF r.idx = Len(r.tasks)
                 THEN requests (-) One(r)
                 ELSE (requests (-) One(r)) (+) One([r EXCEPT !.idx = r.idx + 1])
  /\ UNCHANGED <<download_cancel, active_downloads, fetched, messages_cache, service, stream, files,
                 threads, crashed>>
  /\ UNCHANGED <<budget, response>>

\* remove_from_queue(task_id): the queue without the first entry of task_id.
RECURSIVE RemoveFirst(_, _)
RemoveFirst(q, tid) ==
  IF q = <<>> THEN q
  ELSE IF Head(q) = tid THEN Tail(q)
  ELSE <<Head(q)>> \o RemoveFirst(Tail(q), tid)

\* remove_from_queue without the call of _update_queue_positions_locked.
remove_from_queue_stale(ds, q, tid) ==
  IF tid \in Range(q)
  THEN [queue |-> RemoveFirst(q, tid), status |-> ds, removed |-> TRUE]
  ELSE [queue |-> q, status |-> ds, removed |-> FALSE]

remove_from_queue(ds, q, tid) ==
  IF tid \in Range(q)
  THEN [queue |-> RemoveFirst(q, tid),
        status |-> update_queue_positions_locked(ds, RemoveFirst(q, tid)),
        removed |-> TRUE]
  ELSE [queue |-> q, status |-> ds, removed |-> FALSE]

\* The six assignments of api_cancel to an existing record.
CancelRecord(rec) ==
  SetItem(SetItem(SetItem(SetItem(rec, "status", "cancelled"),
                          "error", ERR_CANCELLED),
                  "queue_position", None),
          "queue_size", 0)

api_cancel(tid) ==
  LET rm == remove_from_queue(download_status, download_queue, tid) IN
  /\ Event
  /\ download_cancel' = download_cancel \cup {tid}
  /\ download_queue' = rm.queue
  /\ download_status' =
       IF tid \in DOMAIN rm.status
       THEN SetItem(rm.status, tid, CancelRecord(rm.status[tid]))
       ELSE rm.status
  /\ UNCHANGED <<active_downloads, fetched, messages_cache, service, stream, files, threads, requests,
                 crashed>>
  /\ response' = <<"cancel", "ok">>

\* The task_ids api_clear_tasks uses when the request gives none.
TerminalIds(ds) == {t \in DOMAIN ds : GetItem(ds[t], "status", "") \in TERMINAL_STATES}

\* api_clear_tasks with the list task_ids (a set: a repeated id pops once).
ClearTasks(ds, task_ids) == [t \in (DOMAIN ds) \ task_ids |-> ds[t]]
ClearedCount(ds, task_ids) == Cardinality((DOMAIN ds) \cap task_ids)

api_clear_tasks_all ==
  /\ Event
  /\ download_status' = ClearTasks(download_status, TerminalIds(download_status))
  /\ UNCHANGED <<download_cancel, download_queue, active_downloads,
                 fetched, messages_cache, service, stream, files, threads, requests, crashed>>
  /\ response' = <<"clear", ClearedCount(download_status, TerminalIds(download_status))>>

api_clear_tasks(task_ids) ==
  /\ Event
  /\ download_status' = ClearTasks(download_status, task_ids)
  /\ UNCHANGED <<download_cancel, download_queue, active_downloads,
                 fetched, messages_cache, service, stream, files, threads, requests, crashed>>
  /\ response' = <<"clear", ClearedCount(download_status, task_ids)>>

\* ----------------------------------------------------- executor threads
Step(t, u) == threads' = (threads (-) One(t)) (+) One(u)
Exit(t) == threads' = threads (-) One(t)
CurrentTask(t) == t.batch[t.idx]

\* The next iteration of "for task in task_items", or the end of the loop.
NextTask(t) ==
  IF t.idx = Len(t.batch) THEN Releasing
  ELSE [t EXCEPT !.idx = t.idx + 1, !.got = 0, !.pc = "task"]

\* The wait for a slot without the test of the counter.
acquire_slot_untested(t, made) ==
  /\ t.pc = "slot"
  /\ active_downloads' = active_downloads + 1
  /\ Step(t, IF made THEN [t EXCEPT !.pc = "task"] ELSE Releasing)
  /\ UNCHANGED <<download_status, download_cancel, download_queue,
                 fetched, messages_cache, service, stream, files, requests, crashed>>
  /\ UNCHANGED <<budget, response>>

\* The wait for a slot where a failed directory setup ends the thread at once,
\* with its slot kept and without the drain.
acquire_slot_leaks(t, made) ==
  /\ t.pc = "slot"
  /\ SlotFree
  /\ active_downloads' = active_downloads + 1
  /\ IF made THEN Step(t, [t EXCEPT !.pc = "task"]) ELSE Exit(t)
  /\ UNCHANGED <<download_status, download_cancel, download_queue,
                 fetched, messages_cache, service, stream, files, requests, crashed>>
  /\ UNCHANGED <<budget, response>>

\* The wait for a slot, then the directory setup: made is FALSE when
\* os.makedirs raises, which sends the thread straight to the release.
acquire_slot(t, made) ==
  /\ t.pc = "slot"
  /\ SlotFree
  /\ active_downloads' = active_downloads + 1
  /\ Step(t, IF made THEN [t EXCEPT !.pc = "task"] ELSE Releasing)
  /\ UNCHANGED <<download_status, download_cancel, download_queue,
                 fetched, messages_cache, service, stream, files, requests, crashed>>
  /\ UNCHANGED <<budget, response>>

ErrorRecord ==
  [status |-> "error", progress |-> 0, error |-> ERR_NOT_FOUND,
   downloaded_bytes |-> 0, total_bytes |-> 0,
   queue_position |-> None, queue_size |-> 0]

SkippedRecord ==
  [status |-> "skipped", progress |-> 100, error |-> "",
   downloaded_bytes |-> ItemSize, total_bytes |-> ItemSize,
   queue_position |-> None, queue_size |-> 0]

DownloadingRecord ==
  [status |-> "downloading", progress |-> 0, error |-> "",
   downloaded_bytes |-> 0, total_bytes |-> ItemSize,
   queue_position |-> None, queue_size |-> 0]

\* One iteration of the loop without the test of download_cancel.
start_task_unflagged(t) ==
  LET tid == CurrentTask(t) IN
  /\ t.pc = "task"
  /\ IF ~Resolvable(tid)
     THEN /\ download_status' = SetItem(download_status, tid, ErrorRecord)
          /\ Step(t, NextTask(t))
          /\ UNCHANGED fetched
     ELSE IF files[tid] = "full"
     THEN /\ download_status' = SetItem(download_status, tid, SkippedRecord)
          /\ Step(t, NextTask(t))
          /\ UNCHANGED fetched
     ELSE /\ download_status' = SetItem(download_status, tid, DownloadingRecord)
          /\ Step(t, [t EXCEPT !.pc = "xfer", !.got = 0])
          /\ fetched' = fetched \cup {tid}
  /\ UNCHANGED <<download_cancel, download_queue, active_downloads,
                 messages_cache, service, stream, files, requests, crashed>>
  /\ UNCHANGED <<budget, response>>

\* One iteration of the loop without the test of the file at the path.
start_task_refetch(t) ==
  LET tid == CurrentTask(t) IN
  /\ t.pc = "task"
  /\ IF tid \in download_cancel
     THEN /\ download_status' =
               SetItem(download_status, tid,
                       CancelRecord(GetItem(download_status, tid, <<>>)))
          /\ Step(t, NextTask(t))
          /\ UNCHANGED fetched
     ELSE IF ~Resolvable(tid)
     THEN /\ download_status' = SetItem(download_status, tid, ErrorRecord)
          /\ Step(t, NextTask(t))
          /\ UNCHANGED fetched
     ELSE /\ download_status' = SetItem(download_status, tid, DownloadingRecord)
          /\ Step(t, [t EXCEPT !.pc = "xfer", !.got = 0])
          /\ fetched' = fetched \cup {tid}
  /\ UNCHANGED <<download_cancel, download_queue, active_downloads,
                 messages_cache, service, stream, files, requests, crashed>>
  /\ UNCHANGED <<budget, response>>

\* One iteration of the loop up to the call of run_async.
start_task(t) ==
  LET tid == CurrentTask(t) IN
  /\ t.pc = "task"
  /\ IF tid \in download_cancel
     THEN /\ download_status' =
               SetItem(download_status, tid,
                       CancelRecord(GetItem(download_status, tid, <<>>)))
          /\ Step(t, NextTask(t))
          /\ UNCHANGED fetched
     ELSE IF ~Resolvable(tid)
     THEN /\ download_status' = SetItem(download_status, tid, ErrorRecord)
          /\ Step(t, NextTask(t))
          /\ UNCHANGED fetched
     ELSE IF files[tid] = "full"
     THEN /\ download_status' = SetItem(download_status, tid, SkippedRecord)
          /\ Step(t, NextTask(t))
          /\ UNCHANGED fetched
     ELSE /\ download_status' = SetItem(download_status, tid, DownloadingRecord)
          /\ Step(t, [t EXCEPT !.pc = "xfer", !.got = 0])
          /\ fetched' = fetched \cup {tid}
  /\ UNCHANGED <<download_cancel, download_queue, active_downloads,
                 messages_cache, service, stream, files, requests, crashed>>
  /\ UNCHANGED <<budget, response>>

\* int(current / total * 100)
Percent(current, total) == IF total = 0 THEN 0 ELSE (current * 100) \div total

\* state.update({...}) of the callback.
ProgressRecord(rec, current) ==
  SetItem(SetItem(SetItem(SetItem(SetItem(rec,
    "progress", Percent(current, ItemSize)),
    "status", "downloading"),
    "error", ""),
    "downloaded_bytes", current),
    "total_bytes", ItemSize)

\* The except branch of the transfer: the record written for the failure err,
\* cancelled is "download_cancel.get(task_id) or the marker is in err".
FailureRecord(rec, cancelled, err) ==
  SetItem(SetItem(SetItem(SetItem(rec,
    "status", IF cancelled THEN "cancelled" ELSE "error"),
    "error", IF cancelled THEN ERR_CANCELLED ELSE err),
    "queue_position", None),
    "queue_size", 0)

\* The assignments after run_async returned.
DoneRecord(rec) ==
  SetItem(SetItem(SetItem(SetItem(SetItem(SetItem(rec,
    "progress", 100),
    "status", "done"),
    "downloaded_bytes", ItemSize),
    "total_bytes", ItemSize),
    "queue_position", None),
    "queue_size", 0)

\* download_status[task_id][...] = ... raises KeyError when the record is
\* gone; in the try block that lands in the except branch, whose own
\* download_status[task_id][...] raises again, uncaught: the thread ends
\* there, before the release of its slot.
Crash(t) ==
  /\ Exit(t)
  /\ crashed' = crashed + 1

\* The callback cb(current, total) of the running transfer.  With the cancel
\* flag set it raises, the transfer ends and the except branch runs.
progress_callback(t, current) ==
  LET tid == CurrentTask(t)
      written == IF current = ItemSize THEN "full" ELSE "partial"
  IN
  /\ t.pc = "xfer"
  /\ current \in (t.got + 1)..ItemSize
  /\ IF tid \in download_cancel
     THEN IF tid \in DOMAIN download_status
          THEN /\ download_status' =
                    SetItem(download_status, tid,
                            FailureRecord(download_status[tid], TRUE, ERR_CANCELLED))
               /\ files' = [files EXCEPT ![tid] = "none"]
               /\ Step(t, NextTask(t))
               /\ UNCHANGED crashed
          ELSE /\ files' = [files EXCEPT ![tid] = written]
               /\ Crash(t)
               /\ UNCHANGED download_status
     ELSE /\ files' = [files EXCEPT ![tid] = written]
          /\ Step(t, [t EXCEPT !.got = current])
          /\ UNCHANGED crashed
          /\ IF tid \in DOMAIN download_status
                /\ GetItem(download_status[tid], "status", "") \in TERMINAL_STATES
             THEN UNCHANGED download_status
             ELSE download_status' =
                    SetItem(download_status, tid,
                            ProgressRecord(GetItem(download_status, tid,
                                                   WaitingRecord(ItemSize)),
                                           current))
  /\ UNCHANGED <<download_cancel, download_queue, active_downloads,
                 fetched, messages_cache, service, stream, requests>>
  /\ UNCHANGED <<budget, response>>

\* run_async returns: the file is complete and the record is finalised.
transfer_done(t) ==
  LET tid == CurrentTask(t) IN
  /\ t.pc = "xfer"
  /\ files' = [files EXCEPT ![tid] = "full"]
  /\ IF tid \in DOMAIN download_status
     THEN /\ download_status' =
               SetItem(download_status, tid, DoneRecord(download_status[tid]))
          /\ Step(t, NextTask(t))
          /\ UNCHANGED crashed
     ELSE /\ Crash(t)
          /\ UNCHANGED download_status
  /\ UNCHANGED <<download_cancel, download_queue, active_downloads,
                 fetched, messages_cache, service, stream, requests>>
  /\ UNCHANGED <<budget, response>>

\* run_async raises err (a timeout, a lost connection).
transfer_fail(t, err) ==
  LET tid == CurrentTask(t)
      cancelled == tid \in download_cancel
  IN
  /\ t.pc = "xfer"
  /\ IF tid \in DOMAIN download_status
     THEN /\ download_status' =
               SetItem(download_status, tid,
                       FailureRecord(download_status[tid], cancelled, err))
          /\ files' = IF cancelled THEN [files EXCEPT ![tid] = "none"] ELSE files
          /\ Step(t, NextTask(t))
          /\ UNCHANGED crashed
     ELSE /\ Crash(t)
          /\ UNCHANGED <<download_status, files>>
  /\ UNCHANGED <<download_cancel, download_queue, active_downloads,
                 fetched, messages_cache, service, stream, requests>>
  /\ UNCHANGED <<budget, response>>

\* with queue_lock: active_downloads -= 1
release_slot(t) ==
  /\ t.pc = "release"
  /\ active_downloads' = active_downloads - 1
  /\ Step(t, Draining)
  /\ UNCHANGED <<download_status, download_cancel, download_queue,
                 fetched, messages_cache, service, stream, files, requests, crashed>>
  /\ UNCHANGED <<budget, response>>

\* get_next_from_queue() would return an entry.
CanPop == download_queue # <<>> /\ SlotFree

\* One turn of the loop of process_queue: an entry is popped and a thread
\* started for it, or the loop ends and with it the executor thread.
\* The time.sleep(1) between two turns orders nothing: the started thread may
\* take its slot before or after the next turn.
process_queue(t) ==
  /\ t.pc = "drain"
  /\ IF CanPop
     THEN /\ download_queue' = Tail(download_queue)
          /\ download_status' =
               update_queue_positions_locked(download_status, download_queue')
          /\ threads' = threads (+) One(NewThread(<<Head(download_queue)>>))
     ELSE /\ Exit(t)
          /\ UNCHANGED <<download_queue, download_status>>
  /\ UNCHANGED <<download_cancel, active_downloads, fetched, messages_cache, service, stream, files,
                 requests, crashed>>
  /\ UNCHANGED <<budget, response>>

\* ------------------------------------------- the callback, step by step
\* The callback runs in the event loop thread, api_cancel in a request thread
\* and the finalisation in the executor thread: below, the callback is two
\* steps, its tests (cb_enter) and its state.update (cb_update), and the
\* coroutine that future.result(timeout=...) gave up on goes on as a stale
\* transfer (pc "stale", "stalecb") that no executor waits for.

\* What the transfer has written at the path when it reports current bytes;
\* a stale transfer whose file the except branch removed writes to no path.
Written(t, current) ==
  LET tid == CurrentTask(t) IN
  IF t.pc \in {"stale", "stalecb"} /\ t.got > 0 /\ files[tid] = "none"
  THEN files
  ELSE [files EXCEPT ![tid] = IF current = ItemSize THEN "full" ELSE "partial"]

\* cb up to the test of TERMINAL_STATES: it raises when the flag is set,
\* returns when the record is terminal, and goes on to state.update otherwise.
cb_enter(t, current) ==
  LET tid == CurrentTask(t) IN
  /\ t.pc \in {"xfer", "stale"}
  /\ current \in (t.got + 1)..ItemSize
  /\ IF tid \in download_cancel
     THEN IF t.pc = "stale"
          THEN /\ files' = Written(t, current)
               /\ Exit(t)
               /\ UNCHANGED <<download_status, crashed>>
          ELSE IF tid \in DOMAIN download_status
          THEN /\ download_status' =
                    SetItem(download_status, tid,
                            FailureRecord(download_status[tid], TRUE, ERR_CANCELLED))
               /\ files' = [files EXCEPT ![tid] = "none"]
               /\ Step(t, NextTask(t))
               /\ UNCHANGED crashed
          ELSE /\ files' = Written(t, current)
               /\ Crash(t)
               /\ UNCHANGED download_status
     ELSE /\ files' = Written(t, current)
          /\ UNCHANGED <<download_status, crashed>>
          /\ IF tid \in DOMAIN download_status
                /\ GetItem(download_status[tid], "status", "") \in TERMINAL_STATES
             THEN Step(t, [t EXCEPT !.got = current])
             ELSE Step(t, [t EXCEPT !.got = current,
                                    !.pc = IF t.pc = "xfer" THEN "cb" ELSE "stalecb"])
  /\ UNCHANGED <<download_cancel, download_queue, active_downloads,
                 fetched, messages_cache, service, stream, requests>>
  /\ UNCHANGED <<budget, response>>

\* state.update({...}) and download_status[tid] = state, on the record as it
\* is by now (the queue fields of a record replaced since cb_enter are taken
\* from its replacement).
cb_update(t) ==
  LET tid == CurrentTask(t) IN
  /\ t.pc \in {"cb", "stalecb"}
  /\ download_status' =
       SetItem(download_status, tid,
               ProgressRecord(GetItem(download_status, tid, WaitingRecord(ItemSize)),
                              t.got))
  /\ Step(t, [t EXCEPT !.pc = IF t.pc = "cb" THEN "xfer" ELSE "stale"])
  /\ UNCHANGED <<download_cancel, download_queue, active_downloads, files,
                 fetched, messages_cache, service, stream, requests, crashed>>
  /\ UNCHANGED <<budget, response>>

\* The coroutine of t, left running by the timeout.
Stale(t) ==
  [pc |-> IF t.pc = "cb" THEN "stalecb" ELSE "stale",
   batch |-> <<CurrentTask(t)>>, idx |-> 1, got |-> t.got]

\* future.result(timeout=timeout) raises TimeoutError, whose str() is empty:
\* the except branch runs while the coroutine goes on.
transfer_timeout(t) ==
  LET tid == CurrentTask(t)
      cancelled == tid \in download_cancel
  IN
  /\ t.pc \in {"xfer", "cb"}
  /\ IF tid \in DOMAIN download_status
     THEN /\ download_status' =
               SetItem(download_status, tid,
                       FailureRecord(download_status[tid], cancelled, ""))
          /\ files' = IF cancelled THEN [files EXCEPT ![tid] = "none"] ELSE files
          /\ threads' = ((threads (-) One(t)) (+) One(NextTask(t))) (+) One(Stale(t))
          /\ UNCHANGED crashed
     ELSE /\ threads' = (threads (-) One(t)) (+) One(Stale(t))
          /\ crashed' = crashed + 1
          /\ UNCHANGED <<download_status, files>>
  /\ UNCHANGED <<download_cancel, download_queue, active_downloads,
                 fetched, messages_cache, service, stream, requests>>
  /\ UNCHANGED <<budget, response>>

\* A stale transfer ends: nothing waits for its result.
stale_done(t) ==
  /\ t.pc = "stale"
  /\ files' = Written(t, ItemSize)
  /\ Exit(t)
  /\ UNCHANGED <<download_status, download_cancel, download_queue,
                 active_downloads, fetched, messages_cache, service, stream, requests, crashed>>
  /\ UNCHANGED <<budget, response>>

\* ------------------------------------------------- the progress stream
\* snapshot(): the task map is the registry as list(download_status.items())
\* finds it; of every record the stream keeps the status, the one field
\* "complete" reads.
SnapshotTasks(ds) == [k \in DOMAIN ds |-> GetItem(ds[k], "status", "")]

\* bool(tasks) and all(...) that ignores bool(tasks).
CompleteVacuous(tasks) == \A k \in DOMAIN tasks : tasks[k] \in TERMINAL_STATES

\* bool(tasks) and all(state.get("status") in TERMINAL_STATES for state in ...)
Complete(tasks) ==
  /\ DOMAIN tasks # {}
  /\ \A k \in DOMAIN tasks : tasks[k] \in TERMINAL_STATES

\* No request for /api/progress yet.
StreamOff == [pc |-> "off", tasks |-> <<>>, complete |-> FALSE]

\* GET /api/progress: the response starts the generator.
stream_open ==
  /\ stream.pc = "off"
  /\ stream' = [stream EXCEPT !.pc = "poll"]
  /\ UNCHANGED <<download_status, download_cancel, download_queue,
                 active_downloads, messages_cache, service, files, fetched, threads,
                 requests, crashed, budget, response>>

\* One turn of generate() that goes on polling whatever it emitted.
stream_emit_endless ==
  /\ stream.pc = "poll"
  /\ stream' = [pc |-> "poll",
                tasks |-> SnapshotTasks(download_status),
                complete |-> Complete(SnapshotTasks(download_status))]
  /\ UNCHANGED <<download_status, download_cancel, download_queue,
                 active_downloads, messages_cache, service, files, fetched, threads,
                 requests, crashed, budget, response>>

\* One turn of the loop of generate(): a snapshot is emitted, and the loop
\* ends when the snapshot is complete.
stream_emit ==
  /\ stream.pc = "poll"
  /\ stream' = [pc |-> IF Complete(SnapshotTasks(download_status))
                       THEN "closed" ELSE "poll",
                tasks |-> SnapshotTasks(download_status),
                complete |-> Complete(SnapshotTasks(download_status))]
  /\ UNCHANGED <<download_status, download_cancel, download_queue,
                 active_downloads, messages_cache, service, files, fetched, threads,
                 requests, crashed, budget, response>>

\* ------------------------------------------- the listing and its caches
\* In the runs of the scheduler only the membership of a task in
\* _messages_cache matters and messages_cache is the set of the tasks that
\* resolve.  In the runs of SpecCache the order of insertion matters:
\* messages_cache is the sequence of the keys (entity_id, msg_id) of the dict
\* in insertion order, the message stored under a key being the message
\* msg_id of the source entity_id, and videos_cache is the sequence of the
\* entries [key, videos] of _videos_cache in insertion order.

\* The sources (dialogs) and the ids of the video messages each of them holds.
Sources == {1, 2}
MsgIds == {1, 2}
\* What one iteration over a source or over the replies of a post yields.
Listings == {<<>>, <<1>>, <<2>>, <<1, 2>>}
\* The limit argument of the listing requests.
Limits == {100}

\* The state of the download scheduler, which the listing leaves alone.
scheduler == <<download_status, download_cancel, download_queue,
               active_downloads, files, fetched, threads, requests, crashed,
               stream>>

\* The None _make_msg_cache_key returns, which is the key of no entry.
NoKey == <<>>

\* _make_msg_cache_key(entity_id, msg_id)
make_msg_cache_key(entity_id, msg_id) ==
  IF entity_id = None \/ msg_id = None THEN NoKey ELSE <<entity_id, msg_id>>

\* _cache_key(entity_id, limit, include_replies)
cache_key(entity_id, limit, include_replies) ==
  <<entity_id, limit, include_replies>>

\* The message of the source key[1] with the id key[2], stored under key.
Message(key) == [source |-> key[1], id |-> key[2]]
NoMessage == [source |-> None, id |-> None]

\* d[key] = value on a dict kept as the sequence of its keys: a key already
\* in the dict keeps its place.
PutKey(d, key) == IF key \in Range(d) THEN d ELSE Append(d, key)

\* d.pop(next(iter(d)), None), n times.
PopOldest(d, n) == SubSeq(d, n + 1, Len(d))

\* min(a, b)
Min(a, b) == IF a < b THEN a ELSE b

\* The eviction of the listing scan after an insertion (l.448-450).
EvictMessages(d) ==
  IF Len(d) > MAX_MSG_CACHE_SIZE
  THEN PopOldest(d, Min(EvictMost, Len(d) - MAX_MSG_CACHE_SIZE + EvictSlack))
  ELSE d

\* The loop of scan() over the messages the iteration yields, from index i.
RECURSIVE ScanListing(_, _, _, _)
ScanListing(d, eid, listing, i) ==
  IF i > Len(listing) THEN d
  ELSE ScanListing(
         EvictMessages(PutKey(d, make_msg_cache_key(eid, listing[i]))),
         eid, listing, i + 1)

\* The loop of scan_one_post_replies() over the replies, from index i.
RECURSIVE ScanReplies(_, _, _, _)
ScanReplies(d, eid, listing, i) ==
  IF i > Len(listing) THEN d
  ELSE ScanReplies(PutKey(d, make_msg_cache_key(eid, listing[i])),
                   eid, listing, i + 1)

\* The entries of _videos_cache, a dict kept as a sequence of [key, videos].
VideoKeys(vc) == {vc[i].key : i \in DOMAIN vc}
VideoEntry(vc, ck) == vc[CHOOSE i \in DOMAIN vc : vc[i].key = ck]

\* _videos_cache[ck] = {...}
PutVideos(vc, ck, videos) ==
  IF ck \in VideoKeys(vc)
  THEN [i \in DOMAIN vc |-> IF vc[i].key = ck
                            THEN [key |-> ck, videos |-> videos] ELSE vc[i]]
  ELSE Append(vc, [key |-> ck, videos |-> videos])

\* The store of a listing that evicts nothing.
EvictVideosNever(vc) == vc

\* while len(_videos_cache) > MAX_VIDEO_CACHE_SIZE: pop the first key
RECURSIVE EvictVideos(_)
EvictVideos(vc) ==
  IF Len(vc) > MAX_VIDEO_CACHE_SIZE THEN EvictVideos(Tail(vc)) ELSE vc

\* GET /api/videos for the source eid.  Without refresh a cached listing is
\* answered from the cache.  Otherwise run_async(scan) runs: it raises before
\* the scan when there is no connection (outcome "refused"), the iteration
\* yields listing and raises ("raised") or yields listing and ends ("ok"),
\* and only then the listing is stored.
api_videos(eid, include_replies, refresh, listing, outcome) ==
  LET ck == cache_key(eid, 100, include_replies) IN
  /\ Event
  /\ current_entity_cache' = eid
  /\ IF ~refresh /\ ck \in VideoKeys(videos_cache)
     THEN /\ listing = <<>> /\ outcome = "ok"
          /\ response' = <<"videos", VideoEntry(videos_cache, ck).videos, TRUE>>
          /\ UNCHANGED <<messages_cache, videos_cache, scans>>
     ELSE IF outcome = "refused"
     THEN /\ listing = <<>>
          /\ response' = <<"error">>
          /\ UNCHANGED <<messages_cache, videos_cache, scans>>
     ELSE /\ scans' = scans + 1
          /\ messages_cache' = ScanListing(messages_cache, eid, listing, 1)
          /\ IF outcome = "raised"
             THEN /\ response' = <<"error">>
                  /\ UNCHANGED videos_cache
             ELSE /\ videos_cache' =
                       EvictVideos(PutVideos(videos_cache, ck, listing))
                  /\ response' = <<"videos", listing, FALSE>>
  /\ UNCHANGED <<scheduler, connection>>

\* GET /api/replies for a post of the source eid: the replies the iteration
\* yields are cached, and an exception of the iteration ends it silently.
api_replies(eid, listing) ==
  /\ Event
  /\ scans' = scans + 1
  /\ messages_cache' = ScanReplies(messages_cache, eid, listing, 1)
  /\ response' = <<"replies", listing>>
  /\ UNCHANGED <<videos_cache, current_entity_cache>>
  /\ UNCHANGED <<scheduler, connection>>

\* The message the fallback loop over _messages_cache.items() returns: the
\* first entry in insertion order whose message id is msg_id.
FirstWithId(d, msg_id) ==
  IF \E i \in DOMAIN d : d[i][2] = msg_id
  THEN Message(d[CHOOSE i \in DOMAIN d :
                   /\ d[i][2] = msg_id
                   /\ \A j \in 1..(i - 1) : d[j][2] # msg_id])
  ELSE NoMessage

\* _get_cached_message(msg_id, entity_id), last_eid being
\* _current_entity_cache.get("entity_id").
get_cached_message(d, msg_id, entity_id, last_eid) ==
  IF make_msg_cache_key(entity_id, msg_id) \in Range(d)
  THEN Message(make_msg_cache_key(entity_id, msg_id))
  ELSE IF entity_id = None /\ make_msg_cache_key(last_eid, msg_id) \in Range(d)
  THEN Message(make_msg_cache_key(last_eid, msg_id))
  ELSE FirstWithId(d, msg_id)

\* GET /api/thumb/<msg_id>?entity=<entity_id> with no thumbnail on disk: the
\* lookup of the message whose thumbnail is then fetched.
api_thumb(msg_id, entity_id) ==
  /\ Event
  /\ response' = <<"thumb", get_cached_message(messages_cache, msg_id,
                                               entity_id, current_entity_cache)>>
  /\ UNCHANGED <<messages_cache, videos_cache, scans, current_entity_cache>>
  /\ UNCHANGED <<scheduler, connection>>

\* ------------------------------------------------ ensure_tg_connection
\* What the steps of ensure_tg_connection leave alone.
caches == <<messages_cache, videos_cache, scans, current_entity_cache,
            budget, response>>

\* The threads (request handlers, executors) that call ensure_tg_connection.
Callers == {1, 2}
\* A caller outside ensure_tg_connection, with what its last call returned.
Returned(result) == [pc |-> "out", result |-> result, since |-> 0]

Return(c, result) == callers' = [callers EXCEPT ![c] = Returned(result)]

\* "now - _last_reconnect_attempt < 8"
InBackoff == clock - last_reconnect_attempt < RECONNECT_BACKOFF

\* ensure_tg_connection(allow_reconnect) up to "with _reconnect_lock":
\* loop_running is tg_loop.is_running().
ensure_enter(c, allow_reconnect, loop_running) ==
  /\ callers[c].pc = "out"
  /\ IF is_connected THEN Return(c, TRUE)
     ELSE IF ~loop_running \/ ~allow_reconnect \/ InBackoff
     THEN Return(c, FALSE)
     ELSE callers' = [callers EXCEPT ![c].pc = "wait"]
  /\ UNCHANGED <<clock, is_connected, last_reconnect_attempt, reconnect_lock,
                 attempts>>
  /\ UNCHANGED <<scheduler, caches>>

\* The section under _reconnect_lock up to the start of _reconnect().
ensure_lock(c) ==
  /\ callers[c].pc = "wait"
  /\ ~reconnect_lock
  /\ IF is_connected
     THEN /\ Return(c, TRUE)
          /\ UNCHANGED <<last_reconnect_attempt, reconnect_lock, attempts>>
     ELSE IF InBackoff
     THEN /\ Return(c, FALSE)
          /\ UNCHANGED <<last_reconnect_attempt, reconnect_lock, attempts>>
     ELSE /\ last_reconnect_attempt' = clock
          /\ reconnect_lock' = TRUE
          /\ attempts' = attempts + 1
          /\ callers' = [callers EXCEPT ![c] =
                           [pc |-> "attempt", result |-> FALSE, since |-> clock]]
  /\ UNCHANGED <<clock, is_connected>>
  /\ UNCHANGED <<scheduler, caches>>

\* _reconnect() ends within the timeout: connects says whether
\* tg_client.connect() succeeded, ok whether the coroutine returned (it
\* raises when the client connects but is not authorised).
attempt_done(c, connects, ok) ==
  /\ callers[c].pc = "attempt"
  /\ clock - callers[c].since <= RECONNECT_TIMEOUT
  /\ ok => connects
  /\ is_connected' = connects
  /\ attempts' = attempts - 1
  /\ reconnect_lock' = FALSE
  /\ Return(c, ok)
  /\ UNCHANGED <<clock, last_reconnect_attempt>>
  /\ UNCHANGED <<scheduler, caches>>

\* .result(timeout=45) raises: the caller returns False and releases the
\* lock; the coroutine is not cancelled and goes on in tg_loop.
attempt_timeout(c) ==
  /\ callers[c].pc = "attempt"
  /\ clock - callers[c].since >= RECONNECT_TIMEOUT
  /\ reconnect_lock' = FALSE
  /\ Return(c, FALSE)
  /\ UNCHANGED <<clock, is_connected, last_reconnect_attempt, attempts>>
  /\ UNCHANGED <<scheduler, caches>>

\* The callers that wait for their attempt.
Attempting == {c \in Callers : callers[c].pc = "attempt"}

\* A _reconnect() no caller waits for any more comes to its end.
abandoned_done(connects) ==
  /\ attempts > Cardinality(Attempting)
  /\ attempts' = attempts - 1
  /\ is_connected' = (is_connected \/ connects)
  /\ UNCHANGED <<clock, last_reconnect_attempt, reconnect_lock, callers>>
  /\ UNCHANGED <<scheduler, caches>>

\* The connection is lost.
disconnect ==
  /\ is_connected
  /\ is_connected' = FALSE
  /\ UNCHANGED <<clock, last_reconnect_attempt, reconnect_lock, callers, attempts>>
  /\ UNCHANGED <<scheduler, caches>>

\* Time passes.
tick(d) ==
  /\ clock + d <= MaxClock
  /\ clock' = clock + d
  /\ UNCHANGED <<is_connected, last_reconnect_attempt, reconnect_lock, callers,
                 attempts>>
  /\ UNCHANGED <<scheduler, caches>>

\* --------------------------------------------------------------- Init
\* Nothing was listed yet and the client is connected; the clock has run for
\* longer than one backoff since _last_reconnect_attempt = 0.0.
ServiceIdle ==
  /\ videos_cache = <<>>
  /\ scans = 0
  /\ current_entity_cache = None
  /\ clock = RECONNECT_BACKOFF
  /\ is_connected = TRUE
  /\ last_reconnect_attempt = 0
  /\ reconnect_lock = FALSE
  /\ callers = [c \in Callers |-> Returned(TRUE)]
  /\ attempts = 0

\* What every initial state shares: no flag, no file, no request in flight.
InitCommon ==
  /\ download_cancel = {}
  /\ files = [t \in TaskIds |-> "none"]
  /\ requests = EmptyBag
  /\ crashed = 0
  /\ response = <<"none">>
  /\ budget = MaxEvents
  /\ stream = StreamOff
  /\ ServiceIdle

\* The scheduler right after start-up; task 2 may be missing from the cache.
InitIdle ==
  /\ messages_cache \in {TaskIds, {1}}
  /\ download_status = <<>>
  /\ download_queue = <<>>
  /\ active_downloads = 0
  /\ threads = EmptyBag
  /\ fetched = {}

\* api_download([1, 2]) was served by an idle scheduler: its thread has
\* taken a slot and has just started the transfer of task 1.
InitRunning ==
  /\ messages_cache \in {TaskIds, {1}}
  /\ download_status =
       [t \in TaskIds |-> IF t = 1 THEN DownloadingRecord
                          ELSE WaitingRecord(IF Resolvable(t) THEN ItemSize ELSE 0)]
  /\ download_queue = <<>>
  /\ active_downloads = 1
  /\ threads = One([pc |-> "xfer", batch |-> <<1, 2>>, idx |-> 1, got |-> 0])
  /\ fetched = {1}

\* Every slot is taken by an executor whose transfers are over and whose
\* records api_clear_tasks has removed, each about to release its slot;
\* api_download([2, 1]) came when no slot was free, so both tasks are queued.
InitBusy ==
  /\ messages_cache = TaskIds
  /\ download_queue = <<2, 1>>
  /\ download_status =
       update_queue_positions_locked(
         [t \in TaskIds |-> WaitingRecord(ItemSize)], <<2, 1>>)
  /\ active_downloads = MAX_CONCURRENT_DOWNLOADS
  /\ threads = [t \in {Releasing} |-> MAX_CONCURRENT_DOWNLOADS]
  /\ fetched = {}

\* ------------------------------------------------------- specification
\* The steps of the handlers and of the executor threads, but for add_to_queue.
Serve ==
  \/ \E b \in Batches : api_download(b)
  \/ \E tid \in TaskIds : api_retry(tid)
  \/ \E r \in BagToSet(requests) : start_thread(r)
  \/ \E tid \in TaskIds : api_cancel(tid)
  \/ api_clear_tasks_all
  \/ \E tid \in TaskIds : api_clear_tasks({tid})
  \/ \E t \in BagToSet(threads), made \in BOOLEAN : acquire_slot(t, made)
  \/ \E t \in BagToSet(threads) : start_task(t)
  \/ \E t \in BagToSet(threads), current \in 1..ItemSize : progress_callback(t, current)
  \/ \E t \in BagToSet(threads) : transfer_done(t)
  \/ \E t \in BagToSet(threads), err \in TransferErrors : transfer_fail(t, err)
  \/ \E t \in BagToSet(threads) : release_slot(t)
  \/ \E t \in BagToSet(threads) : process_queue(t)

Next ==
  \/ Serve
  \/ \E r \in BagToSet(requests) : add_to_queue(r)

\* Runs from the idle scheduler and from one running batch, with at most
\* MaxEvents requests.  No request of such a run finds every slot taken
\* (NoRequestQueues), so add_to_queue has no step in them.
Init == InitCommon /\ (InitIdle \/ InitRunning)
Spec == Init /\ [][Serve]_vars

\* Runs from the saturated scheduler, with at most MaxEvents requests.
InitSaturated == InitCommon /\ InitBusy
SpecBusy == InitSaturated /\ [][Next]_vars

\* Every slot is taken by an executor about to release it, as in InitBusy, and
\* nothing has been submitted since; the environment may send one request
\* more than in the other runs, so that a batch of two tasks fits.
InitFull ==
  /\ download_cancel = {}
  /\ files = [t \in TaskIds |-> "none"]
  /\ requests = EmptyBag
  /\ crashed = 0
  /\ response = <<"none">>
  /\ budget = MaxEvents + 1
  /\ stream = StreamOff
  /\ ServiceIdle
  /\ messages_cache = TaskIds
  /\ download_queue = <<>>
  /\ download_status = <<>>
  /\ active_downloads = MAX_CONCURRENT_DOWNLOADS
  /\ threads = [t \in {Releasing} |-> MAX_CONCURRENT_DOWNLOADS]
  /\ fetched = {}

SpecFull == InitFull /\ [][Next]_vars

\* Runs of Spec with add_to_queue allowed: they take no such step.
SpecAll == Init /\ [][Next]_vars
NoRequestQueues == \A r \in BagToSet(requests) : r.direct

\* Runs of Spec with the callback step by step and with stale transfers.
ServeCallback ==
  \/ \E b \in Batches : api_download(b)
  \/ \E tid \in TaskIds : api_retry(tid)
  \/ \E r \in BagToSet(requests) : start_thread(r)
  \/ \E tid \in TaskIds : api_cancel(tid)
  \/ api_clear_tasks_all
  \/ \E tid \in TaskIds : api_clear_tasks({tid})
  \/ \E t \in BagToSet(threads), made \in BOOLEAN : acquire_slot(t, made)
  \/ \E t \in BagToSet(threads) : start_task(t)
  \/ \E t \in BagToSet(threads), current \in 1..ItemSize : cb_enter(t, current)
  \/ \E t \in BagToSet(threads) : cb_update(t)
  \/ \E t \in BagToSet(threads) : transfer_done(t)
  \/ \E t \in BagToSet(threads) : transfer_fail(t, "disconnected")
  \/ \E t \in BagToSet(threads) : transfer_timeout(t)
  \/ \E t \in BagToSet(threads) : stale_done(t)
  \/ \E t \in BagToSet(threads) : release_slot(t)
  \/ \E t \in BagToSet(threads) : process_queue(t)

SpecCallback == Init /\ [][ServeCallback]_vars

\* The steps of the executor threads.
Executors ==
  \/ \E t \in BagToSet(threads), made \in BOOLEAN : acquire_slot(t, made)
  \/ \E t \in BagToSet(threads) : start_task(t)
  \/ \E t \in BagToSet(threads), current \in 1..ItemSize : progress_callback(t, current)
  \/ \E t \in BagToSet(threads) : transfer_done(t)
  \/ \E t \in BagToSet(threads), err \in TransferErrors : transfer_fail(t, err)
  \/ \E t \in BagToSet(threads) : release_slot(t)
  \/ \E t \in BagToSet(threads) : process_queue(t)

\* Runs of SpecFull in which every thread that can step does so in the end:
\* the executors (so every transfer ends), the started threads and the
\* request threads on their way to add_to_queue.
SpecDrain ==
  /\ InitFull
  /\ [][Next]_vars
  /\ WF_vars(Executors)
  /\ WF_vars(\E r \in BagToSet(requests) : start_thread(r))
  /\ WF_vars(\E r \in BagToSet(requests) : add_to_queue(r))

\* The steps of the stream.
Stream == stream_open \/ stream_emit

\* The idle scheduler; the environment may send one request more than in
\* Spec, so that a batch of two tasks fits.
InitStream ==
  /\ download_cancel = {}
  /\ files = [t \in TaskIds |-> "none"]
  /\ requests = EmptyBag
  /\ crashed = 0
  /\ response = <<"none">>
  /\ budget = MaxEvents + 1
  /\ stream = StreamOff
  /\ ServiceIdle
  /\ messages_cache \in {TaskIds, {1}}
  /\ download_status = <<>>
  /\ download_queue = <<>>
  /\ active_downloads = 0
  /\ threads = EmptyBag
  /\ fetched = {}

\* The running scheduler of InitRunning in a download directory that holds
\* the complete file of task 2 from an earlier run of the program.
InitExisting ==
  /\ download_cancel = {}
  /\ files = [t \in TaskIds |-> IF t = 2 THEN "full" ELSE "none"]
  /\ requests = EmptyBag
  /\ crashed = 0
  /\ response = <<"none">>
  /\ budget = MaxEvents
  /\ stream = StreamOff
  /\ ServiceIdle
  /\ messages_cache \in {TaskIds, {1}}
  /\ download_status =
       [t \in TaskIds |-> IF t = 1 THEN DownloadingRecord
                          ELSE WaitingRecord(IF Resolvable(t) THEN ItemSize ELSE 0)]
  /\ download_queue = <<>>
  /\ active_downloads = 1
  /\ threads = One([pc |-> "xfer", batch |-> <<1, 2>>, idx |-> 1, got |-> 0])
  /\ fetched = {1}

SpecExisting == InitExisting /\ [][Serve]_vars

\* Scenario A: the task identifiers of five submissions of one task each, two
\* more than there are slots.
Submissions == 1..(MAX_CONCURRENT_DOWNLOADS + 2)

\* The idle scheduler with the five messages in the cache.
InitFive ==
  /\ download_cancel = {}
  /\ files = [t \in Submissions |-> "none"]
  /\ requests = EmptyBag
  /\ crashed = 0
  /\ response = <<"none">>
  /\ budget = MAX_CONCURRENT_DOWNLOADS + 2
  /\ stream = StreamOff
  /\ ServiceIdle
  /\ messages_cache = Submissions
  /\ download_status = <<>>
  /\ download_queue = <<>>
  /\ active_downloads = 0
  /\ threads = EmptyBag
  /\ fetched = {}

\* The five submissions, each task submitted once and in the order of the
\* identifiers, their dispatch, and the executors up to their transfers,
\* none of which ends.
ServeFive ==
  \/ \E tid \in Submissions :
       /\ (DOMAIN download_status) = 1..(tid - 1)
       /\ api_download(<<tid>>)
  \/ \E r \in BagToSet(requests) : start_thread(r)
  \/ \E r \in BagToSet(requests) : add_to_queue(r)
  \/ \E t \in BagToSet(threads) : acquire_slot(t, TRUE)
  \/ \E t \in BagToSet(threads) : start_task(t)

SpecFive == InitFive /\ [][ServeFive]_vars

\* Runs from the idle scheduler with one observer of /api/progress: the
\* threads that were started keep running and the generator keeps polling.
SpecStream ==
  /\ InitStream
  /\ [][Serve \/ Stream]_vars
  /\ WF_vars(Executors)
  /\ WF_vars(\E r \in BagToSet(requests) : start_thread(r))
  /\ WF_vars(stream_emit)

\* The service right after start-up, before any listing.
InitCache ==
  /\ download_cancel = {}
  /\ files = [t \in TaskIds |-> "none"]
  /\ requests = EmptyBag
  /\ crashed = 0
  /\ response = <<"none">>
  /\ budget = MaxListings
  /\ stream = StreamOff
  /\ ServiceIdle
  /\ messages_cache = <<>>
  /\ download_status = <<>>
  /\ download_queue = <<>>
  /\ active_downloads = 0
  /\ threads = EmptyBag
  /\ fetched = {}

\* The requests that read and fill the caches.
ServeCache ==
  \/ \E eid \in Sources, include_replies \in BOOLEAN, refresh \in BOOLEAN,
        listing \in Listings, outcome \in {"ok", "raised", "refused"} :
       api_videos(eid, include_replies, refresh, listing, outcome)
  \/ \E eid \in Sources, listing \in Listings : api_replies(eid, listing)
  \/ \E msg_id \in MsgIds, entity_id \in Sources \cup {None} :
       api_thumb(msg_id, entity_id)

SpecCache == InitCache /\ [][ServeCache]_vars

\* The calls of ensure_tg_connection, the reconnects and the clock.
ServeConnect ==
  \/ \E c \in Callers, allow_reconnect \in BOOLEAN, loop_running \in BOOLEAN :
       ensure_enter(c, allow_reconnect, loop_running)
  \/ \E c \in Callers : ensure_lock(c)
  \/ \E c \in Callers, connects \in BOOLEAN, ok \in BOOLEAN :
       attempt_done(c, connects, ok)
  \/ \E c \in Callers : attempt_timeout(c)
  \/ \E connects \in BOOLEAN : abandoned_done(connects)
  \/ disconnect
  \/ \E d \in {1, RECONNECT_TIMEOUT} : tick(d)

\* Runs of the service right after start-up in which only the connection
\* is used.
SpecConnect == InitCache /\ [][ServeConnect]_vars

\* ------------------------------------------------------------- claims
\* Executor threads that hold a slot: past the wait of _do_download and not
\* yet past its final "active_downloads -= 1".
HoldsSlot(t) == t.pc \in {"task", "xfer", "release"}
SlotHolders ==
  BagCardinality([t \in {u \in BagToSet(threads) : HoldsSlot(u)} |-> threads[t]])

\* Executor threads inside the transfer (run_async) of task tid.
Transferring(tid) ==
  BagCardinality([t \in {u \in BagToSet(threads) :
                           u.pc = "xfer" /\ CurrentTask(u) = tid} |-> threads[t]])

\* The index of the first entry of tid in the queue q.
FirstIndex(q, tid) == CHOOSE i \in DOMAIN q : q[i] = tid /\ \A j \in 1..(i - 1) : q[j] # tid

\* C1: in every reachable state the slot counter is at least 0 and at most
\* MAX_CONCURRENT_DOWNLOADS.
C1_ActiveWithinCap ==
  /\ 0 <= active_downloads
  /\ active_downloads <= MAX_CONCURRENT_DOWNLOADS

\* Every slot is taken while a thread started by process_queue waits for one.
C1_Witness ==
  /\ active_downloads = MAX_CONCURRENT_DOWNLOADS
  /\ \E t \in BagToSet(threads) : t.pc = "slot"

\* C2: no slot is ever leaked: every slot counted in active_downloads belongs
\* to an executor thread that is still going to release it, whatever happened
\* to its tasks and to their records.
C2_NoSlotLeaked == active_downloads = SlotHolders

\* C3: every queued task identifier has a record with
\* 1 <= queue_position <= queue_size = len(queue), and the positions of the
\* queued identifiers are exactly 1..len(queue), without gap or repeat.
C3_QueuePositions ==
  /\ \A tid \in Range(download_queue) :
       /\ tid \in DOMAIN download_status
       /\ 1 <= download_status[tid].queue_position
       /\ download_status[tid].queue_position <= download_status[tid].queue_size
       /\ download_status[tid].queue_size = Len(download_queue)
  /\ \A i \in DOMAIN download_queue :
       /\ download_queue[i] \in DOMAIN download_status
       /\ download_status[download_queue[i]].queue_position = i

\* C4: api_download of a task whose record is in state downloading leaves
\* that record as it is.
C4_DownloadingNotReplaced ==
  [][\A b \in Batches : \A tid \in Range(b) :
       (/\ api_download(b)
        /\ tid \in DOMAIN download_status
        /\ download_status[tid].status = "downloading")
       => /\ tid \in DOMAIN download_status'
          /\ download_status'[tid] = download_status[tid]]_vars

\* A request r past get_queue_status is dispatched by the step.
Dispatched(r) == CopiesIn(r, requests') < CopiesIn(r, requests)

\* The dispatch of the request r: one thread for all of r.tasks and nothing
\* enqueued when r found a free slot, else its next entry appended to the tail
\* of the queue, the entries after it still to come.
Admitted(r) ==
  IF r.direct
  THEN /\ threads' = threads (+) One(NewThread(r.tasks))
       /\ download_queue' = download_queue
       /\ requests' = requests (-) One(r)
  ELSE /\ download_queue' = Append(download_queue, r.tasks[r.idx])
       /\ threads' = threads
       /\ requests' = IF r.idx = Len(r.tasks)
                      THEN requests (-) One(r)
                      ELSE (requests (-) One(r)) (+) One([r EXCEPT !.idx = r.idx + 1])

\* C5: api_download of a non-empty batch hands the whole batch to one executor
\* thread and enqueues nothing when active_downloads is below the cap;
\* otherwise it appends every entry of the batch to the tail of the queue, in
\* order, and the record the submission stored for the entry is then queued,
\* with queue_position and queue_size set.
C5_SubmitAdmission ==
  [][/\ \A b \in Batches : api_download(b) =>
          requests' = requests (+)
            One([kind |-> "download", tasks |-> b, idx |-> 1,
                 direct |-> (active_downloads < MAX_CONCURRENT_DOWNLOADS)])
     /\ \A r \in BagToSet(requests) : (r.kind = "download" /\ Dispatched(r)) =>
          /\ Admitted(r)
          /\ LET tid == r.tasks[r.idx] IN
             (/\ ~r.direct
              /\ tid \in DOMAIN download_status
              /\ download_status[tid].status = "waiting")
             => /\ download_status'[tid].status = "queued"
                /\ download_status'[tid].queue_position = Len(download_queue')
                /\ download_status'[tid].queue_size = Len(download_queue')]_vars

\* api_download([1, 2]) came when every slot was taken and the queue was
\* empty: both entries are queued, in order.
C5_Witness ==
  /\ response = <<"download", 2>>
  /\ requests = EmptyBag
  /\ active_downloads = MAX_CONCURRENT_DOWNLOADS
  /\ download_queue = <<1, 2>>
  /\ download_status[1].status = "queued"
  /\ download_status[1].queue_position = 1
  /\ download_status[2].status = "queued"
  /\ download_status[2].queue_position = 2
  /\ download_status[2].queue_size = 2

\* api_cancel of the queued task tid removes its entry from the queue and
\* sets its record to cancelled with queue_position cleared.
CancelRemoves(tid) ==
  LET k == FirstIndex(download_queue, tid) IN
  /\ download_queue' = SubSeq(download_queue, 1, k - 1)
                         \o SubSeq(download_queue, k + 1, Len(download_queue))
  /\ tid \in download_cancel'
  /\ tid \in DOMAIN download_status =>
       /\ tid \in DOMAIN download_status'
       /\ download_status'[tid].status = "cancelled"
       /\ download_status'[tid].queue_position = None

\* No step starts a transfer of a task whose cancel flag is set.
NeverTransferredAgain ==
  \A tid \in download_cancel : Transferring(tid)' <= Transferring(tid)

\* C6 (as the code has it): api_cancel of a queued task removes its entry
\* from the queue and sets its record to cancelled with queue_position
\* cleared; the entries behind it move up by one position, the entries ahead
\* of it keep theirs, all of them get the new length as queue_size; and no
\* executor starts a transfer of the task while its flag is set.
C6_CancelQueued ==
  [][/\ \A tid \in TaskIds : (api_cancel(tid) /\ tid \in Range(download_queue)) =>
          /\ CancelRemoves(tid)
          /\ \A i \in DOMAIN download_queue :
               LET u == download_queue[i] IN
               (/\ u # tid
                /\ u \in DOMAIN download_status
                /\ download_status[u].queue_position = i)
               => /\ download_status'[u].queue_position =
                       IF i > FirstIndex(download_queue, tid) THEN i - 1 ELSE i
                  /\ download_status'[u].queue_size = Len(download_queue) - 1
     /\ NeverTransferredAgain]_vars

\* The head of the queue <<2, 1>> was cancelled before any entry was popped:
\* task 1 moved from position 2 to position 1.
C6_Witness ==
  /\ response = <<"cancel", "ok">>
  /\ threads = [t \in {Releasing} |-> MAX_CONCURRENT_DOWNLOADS]
  /\ download_queue = <<1>>
  /\ 2 \in download_cancel
  /\ download_status[2].status = "cancelled"
  /\ download_status[2].queue_position = None
  /\ download_status[1].queue_position = 1
  /\ download_status[1].queue_size = 1

\* C6 (as the claim has it): api_cancel of a queued task removes its entry,
\* sets its record to cancelled with queue_position cleared, moves every
\* remaining queued task down by one position, and no executor transfers the
\* task afterwards.
C6_AllShiftDown ==
  [][/\ \A tid \in TaskIds : (api_cancel(tid) /\ tid \in Range(download_queue)) =>
          /\ CancelRemoves(tid)
          /\ \A u \in Range(download_queue') :
               (u # tid /\ u \in DOMAIN download_status)
               => download_status'[u].queue_position =
                    download_status[u].queue_position - 1
     /\ NeverTransferredAgain]_vars

\* C7: when the transfer of a task whose cancel flag is set ends, the record
\* is cancelled and no partial file is left at the destination; and a record
\* that is cancelled stays cancelled while the flag is set.
C7_CancelDownloading ==
  [][\A tid \in download_cancel :
       /\ Transferring(tid)' < Transferring(tid) =>
            /\ files'[tid] # "partial"
            /\ tid \in DOMAIN download_status'
            /\ download_status'[tid].status = "cancelled"
       /\ (/\ tid \in download_cancel'
           /\ tid \in DOMAIN download_status
           /\ download_status[tid].status = "cancelled"
           /\ tid \in DOMAIN download_status')
          => download_status'[tid].status = "cancelled"]_vars

C9_RetryTerminal ==
  [][/\ \A tid \in TaskIds :
          (/\ api_retry(tid)
           /\ Resolvable(tid)
           /\ tid \in DOMAIN download_status
           /\ download_status[tid].status \in TERMINAL_STATES)
          => /\ download_status' = CreateRecords(download_status, <<tid>>, 1)
             /\ download_status'[tid].status = "waiting"
             /\ download_status'[tid].progress = 0
             /\ download_status'[tid].error = ""
             /\ download_cancel' = download_cancel \ {tid}
             /\ requests' = requests (+)
                  One([kind |-> "retry", tasks |-> <<tid>>, idx |-> 1,
                       direct |-> (active_downloads < MAX_CONCURRENT_DOWNLOADS)])
     /\ \A r \in BagToSet(requests) : (r.kind = "retry" /\ Dispatched(r)) =>
          /\ Admitted(r)
          /\ requests' = requests (-) One(r)]_vars

\* Task tid failed or finished, and its retry came while every slot was
\* still taken: the new record is stored, the entry is about to be queued.
C9_Witness ==
  /\ response = <<"retry", "ok">>
  /\ \E r \in BagToSet(requests) :
       /\ r.kind = "retry"
       /\ ~r.direct
       /\ r.tasks[1] \in fetched
       /\ r.tasks[1] \notin Range(download_queue)
       /\ \A t \in BagToSet(threads) : t.pc \in {"release", "drain"}
       /\ download_status[r.tasks[1]] = WaitingRecord(ItemSize)

\* C10: api_retry of a task whose message cannot be resolved answers with an
\* error and leaves the registry, the cancel flags, the queue and the slot
\* counter as they are.
C10_RetryUnresolved ==
  [][\A tid \in TaskIds : (api_retry(tid) /\ ~Resolvable(tid)) =>
       /\ response' = <<"retry", "error">>
       /\ download_status' = download_status
       /\ download_cancel' = download_cancel
       /\ download_queue' = download_queue
       /\ active_downloads' = active_downloads
       /\ threads' = threads
       /\ requests' = requests]_vars

\* The last request served was such a retry.
C10_Witness ==
  /\ response = <<"retry", "error">>
  /\ \E tid \in TaskIds : ~Resolvable(tid)

\* C11: a record in a terminal state keeps its state in every step, but for a
\* step of api_download or api_retry for the task and for the removal of the
\* record by api_clear_tasks; a cancelled record never becomes done or error.
C11_TerminalIsFinal ==
  [][\A tid \in TaskIds :
       (/\ tid \in DOMAIN download_status
        /\ download_status[tid].status \in TERMINAL_STATES
        /\ tid \in DOMAIN download_status'
        /\ ~api_retry(tid)
        /\ ~(\E b \in Batches : tid \in Range(b) /\ api_download(b)))
       => download_status'[tid].status = download_status[tid].status]_vars

\* C12: no step of the progress callback changes the state of a record that
\* is in a terminal state, whatever api_cancel and the finalisation of the
\* executor did between the callback's test and its write.
C12_CallbackKeepsTerminal ==
  [][\A t \in BagToSet(threads) : \A current \in 1..ItemSize :
       (/\ \/ cb_enter(t, current) /\ CurrentTask(t) \notin download_cancel
           \/ cb_update(t)
        /\ CurrentTask(t) \in DOMAIN download_status
        /\ download_status[CurrentTask(t)].status \in TERMINAL_STATES)
       => download_status'[CurrentTask(t)].status =
            download_status[CurrentTask(t)].status]_vars

\* C13: a step of api_clear_tasks, with or without a list of task ids,
\* removes only records in a terminal state, leaves the other records as
\* they are, and answers with the number of records it removed.
C13_ClearOnlyTerminal ==
  [][(api_clear_tasks_all \/ \E tid \in TaskIds : api_clear_tasks({tid})) =>
       /\ \A u \in (DOMAIN download_status) \ (DOMAIN download_status') :
            download_status[u].status \in TERMINAL_STATES
       /\ \A u \in (DOMAIN download_status) \cap (DOMAIN download_status') :
            download_status'[u] = download_status[u]
       /\ response' =
            <<"clear",
              Cardinality((DOMAIN download_status) \ (DOMAIN download_status'))>>]_vars

\* C14: the complete flag of an emitted snapshot is true if and only if the
\* snapshot's task map is not empty and every record in it is terminal.
C14_CompleteFlag ==
  stream.complete <=>
    /\ DOMAIN stream.tasks # {}
    /\ \A k \in DOMAIN stream.tasks :
         stream.tasks[k] \in {"done", "skipped", "error", "cancelled"}

\* A snapshot of a registry of two records, one of them not terminal.
C14_Witness ==
  /\ stream.pc = "poll"
  /\ ~stream.complete
  /\ DOMAIN stream.tasks = {1, 2}
  /\ stream.tasks[1] \in TERMINAL_STATES
  /\ stream.tasks[2] \notin TERMINAL_STATES

\* C15 (as the code has it): the stream emits at most one snapshot with
\* complete=true, which is the last it emits, and it ends only with such a
\* snapshot; while no snapshot is complete it goes on emitting.
C15_EndsOnlyComplete ==
  /\ stream.pc = "closed" => stream.complete
  /\ stream.complete => stream.pc = "closed"
  /\ (stream.pc = "poll" /\ ~stream.complete) => ENABLED stream_emit

\* The stream has ended with a complete snapshot of both records.
C15_Witness ==
  /\ stream.pc = "closed"
  /\ stream.complete
  /\ DOMAIN stream.tasks = {1, 2}

\* C15 (as the claim has it): every stream emits exactly one snapshot with
\* complete=true, its last, and does not end before.
C15_ExactlyOneComplete ==
  /\ [](stream.pc = "closed" <=> stream.complete)
  /\ (stream.pc = "poll") ~> (stream.pc = "closed")

\* The step starts the next task of the executor t, which is resolvable and
\* whose file is at the path with the size of the item.
StartsExisting(t) ==
  /\ start_task(t)
  /\ Resolvable(CurrentTask(t))
  /\ files[CurrentTask(t)] = "full"

\* The record of tid after the step is the skipped record of the existing
\* file, and the step called the external fetch for nothing.
SkippedUnfetched(tid) ==
  /\ tid \in DOMAIN download_status'
  /\ download_status'[tid].status = "skipped"
  /\ download_status'[tid].progress = 100
  /\ download_status'[tid].downloaded_bytes = ItemSize
  /\ download_status'[tid].total_bytes = ItemSize
  /\ fetched' = fetched
  /\ Transferring(tid)' = Transferring(tid)

\* C16: when the executor processes a resolvable task whose cancel flag is
\* not set and whose file is at the path with the size of the item, the
\* record becomes skipped with progress 100 and downloaded_bytes =
\* total_bytes = that size, and the external fetch is not called.
C16_SkipExisting ==
  [][\A t \in BagToSet(threads) :
       (StartsExisting(t) /\ CurrentTask(t) \notin download_cancel)
       => SkippedUnfetched(CurrentTask(t))]_vars

\* Task 2, whose file was on disk, has been processed and is skipped, the
\* fetch having been called for task 1 only.
C16_Witness ==
  /\ 2 \in DOMAIN download_status
  /\ download_status[2].status = "skipped"
  /\ download_status[2].progress = 100
  /\ files[2] = "full"
  /\ fetched = {1}
  /\ Transferring(2) = 0

\* C16 as stated, whatever the cancel flag of the task: every resolvable task
\* with its file at the path is skipped when the executor processes it.
C16_SkipExistingAlways ==
  [][\A t \in BagToSet(threads) :
       StartsExisting(t) => SkippedUnfetched(CurrentTask(t))]_vars

\* C17: between two consecutive states in which the record of a task is
\* downloading, its downloaded_bytes does not decrease, also when the task is
\* submitted or retried again while its transfer is in flight.
C17_BytesNeverDecrease ==
  [][\A tid \in TaskIds :
       (/\ tid \in DOMAIN download_status
        /\ download_status[tid].status = "downloading"
        /\ tid \in DOMAIN download_status'
        /\ download_status'[tid].status = "downloading")
       => download_status'[tid].downloaded_bytes
            >= download_status[tid].downloaded_bytes]_vars

\* The five submissions were served and dispatched, and no executor that
\* waits for a slot can take one.
FiveSettled ==
  /\ budget = 0
  /\ DOMAIN download_status = Submissions
  /\ requests = EmptyBag
  /\ \A t \in BagToSet(threads) : ~ENABLED acquire_slot(t, TRUE)

\* C18: with cap 3 and an idle scheduler, after five submissions of one task
\* each, in any interleaving with the executor threads, exactly 3 tasks are
\* with an executor that holds a slot and exactly 2 are in the queue, with
\* queue_size = 2 and the positions 1 and 2.
C18_ThreeRunTwoQueued ==
  FiveSettled =>
    /\ SlotHolders = MAX_CONCURRENT_DOWNLOADS
    /\ BagCardinality(threads) = MAX_CONCURRENT_DOWNLOADS
    /\ Len(download_queue) = 2
    /\ \A i \in DOMAIN download_queue :
         /\ download_status[download_queue[i]].status = "queued"
         /\ download_status[download_queue[i]].queue_position = i
         /\ download_status[download_queue[i]].queue_size = 2

\* Executor threads that were started and wait for a slot.
WaitingForSlot ==
  BagCardinality([t \in {u \in BagToSet(threads) : u.pc = "slot"} |-> threads[t]])

\* No request has been served since the saturated start: every thread that
\* waits for a slot was started by process_queue for an entry it popped.
OnlyDrainStarts == budget = MaxEvents /\ requests = EmptyBag

\* C19: when an executor has finished its batch, the slot counter drops by
\* one; a turn of the drain on a non-empty queue pops the head entry and
\* nothing else and starts one executor for it, and the entries popped and
\* not yet running never exceed the free slots.
C19_DrainWithinFreeSlots ==
  [][\A t \in BagToSet(threads) :
       /\ release_slot(t) => active_downloads' = active_downloads - 1
       /\ (process_queue(t) /\ download_queue # <<>> /\ OnlyDrainStarts) =>
            /\ \/ /\ download_queue' = Tail(download_queue)
                  /\ threads' = threads (+) One(NewThread(<<Head(download_queue)>>))
               \/ /\ download_queue' = download_queue
                  /\ threads' = threads (-) One(t)
            /\ WaitingForSlot' <= MAX_CONCURRENT_DOWNLOADS - active_downloads']_vars

\* The step ends the transfer of the executor t in the except branch: the
\* transfer raised, or its callback found the cancel flag set.
TransferFails(t) ==
  \/ \E err \in TransferErrors : transfer_fail(t, err)
  \/ /\ t.pc = "xfer"
     /\ CurrentTask(t) \in download_cancel
     /\ \E current \in 1..ItemSize : progress_callback(t, current)

\* C20: when the transfer of a task fails (error, timeout or cancellation),
\* the executor goes on with the next task of its batch, or to the release of
\* its slot after the last one, and the record of no other task changes.
C20_FailureKeepsSiblings ==
  [][\A t \in BagToSet(threads) :
       (t.pc = "xfer" /\ TransferFails(t)) =>
         /\ threads' = (threads (-) One(t)) (+) One(NextTask(t))
         /\ \A tid \in TaskIds \ {CurrentTask(t)} :
              /\ (tid \in DOMAIN download_status') = (tid \in DOMAIN download_status)
              /\ tid \in DOMAIN download_status =>
                   download_status'[tid] = download_status[tid]]_vars

\* The step leaves the queue as it is, appends one entry at its tail, takes
\* its head for dispatch, or is a cancel that removes the cancelled entry.
QueueStepsInOrder ==
  \/ download_queue' = download_queue
  \/ \E tid \in TaskIds : download_queue' = Append(download_queue, tid)
  \/ /\ download_queue # <<>>
     /\ download_queue' = Tail(download_queue)
     /\ threads' = threads (+) One(NewThread(<<Head(download_queue)>>))
  \/ \E tid \in TaskIds :
       /\ api_cancel(tid)
       /\ download_queue' = RemoveFirst(download_queue, tid)

\* C21: entries leave the queue for dispatch in the order they were
\* enqueued, except for entries removed by cancel; and a batch submitted
\* while entries wait in the queue is queued behind them: it is not handed to
\* a thread of its own, which would compete for the next free slot ahead of
\* the entries that wait.
C21_QueueOrder ==
  [][/\ QueueStepsInOrder
     /\ \A b \in Batches :
          (api_download(b) /\ download_queue # <<>>) =>
            requests' = requests (+)
              One([kind |-> "download", tasks |-> b, idx |-> 1,
                   direct |-> FALSE])]_vars

\* C22: in every reachable state a record has a queue_position other than
\* None, or a queue_size other than 0, only if its state is queued.
C22_PositionOnlyQueued ==
  \A tid \in DOMAIN download_status :
    (\/ GetItem(download_status[tid], "queue_position", None) # None
     \/ GetItem(download_status[tid], "queue_size", 0) # 0)
    => GetItem(download_status[tid], "status", "") = "queued"

\* C23: in every reachable state the error field of a record is non-empty
\* only if its state is error or cancelled; a record in done, skipped or
\* downloading has an empty error field.
C23_ErrorOnlyFailed ==
  \A tid \in DOMAIN download_status :
    GetItem(download_status[tid], "error", "") # ""
    => GetItem(download_status[tid], "status", "") \in {"error", "cancelled"}

\* The step is one of the executor t that writes the record of its current
\* task: the start of the task, or the end of its transfer by a failure.
ExecutorWrites(t) ==
  \/ t.pc = "task" /\ start_task(t)
  \/ t.pc = "xfer" /\ \E err \in TransferErrors : transfer_fail(t, err)

\* C24: whenever the executor finalises a record as error, for an unresolved
\* item as for any failure of the transfer, the timeout of the marshalled
\* call included, the error field of the record is a non-empty string.
C24_ErrorHasCause ==
  [][\A t \in BagToSet(threads) :
       (/\ t.pc \in {"task", "xfer"}
        /\ ExecutorWrites(t)
        /\ CurrentTask(t) \in DOMAIN download_status'
        /\ download_status'[CurrentTask(t)].status = "error")
       => download_status'[CurrentTask(t)].error # ""]_vars

\* C25: the executor threads alive, those that wait for a slot included, are
\* never more than MAX_CONCURRENT_DOWNLOADS.
C25_ThreadsWithinCap == BagCardinality(threads) <= MAX_CONCURRENT_DOWNLOADS

\* The entries of d that the step removed are the oldest ones: what is left
\* of d is one of its suffixes, it is the head of the dict e after the step,
\* and the entries of e behind it are of the one source the step scanned.
EvictedOldestFirst(d, e) ==
  \E n \in 0..Len(d) :
    /\ Len(e) >= Len(d) - n
    /\ SubSeq(e, 1, Len(d) - n) = SubSeq(d, n + 1, Len(d))
    /\ \E eid \in Sources :
         \A i \in (Len(d) - n + 1)..Len(e) : e[i][1] = eid

\* C26: after any sequence of listing scans and reply scans the message
\* cache holds at most MAX_MSG_CACHE_SIZE entries, and the entries a scan
\* evicts are the ones inserted first.
C26_MessageCacheBounded ==
  [][/\ Len(messages_cache') <= MAX_MSG_CACHE_SIZE
     /\ EvictedOldestFirst(messages_cache, messages_cache')]_vars

\* The keys of _videos_cache in insertion order.
RECURSIVE KeySeq(_)
KeySeq(vc) == IF vc = <<>> THEN <<>> ELSE <<vc[1].key>> \o KeySeq(Tail(vc))

\* The store of the listing under ck kept the entries in insertion order and
\* removed entries only from the head, and only while more than
\* MAX_VIDEO_CACHE_SIZE were left.
StoredInOrder(ck) ==
  IF ck \in VideoKeys(videos_cache)
  THEN KeySeq(videos_cache') = KeySeq(videos_cache)
  ELSE \E n \in 0..Len(videos_cache) :
         /\ KeySeq(videos_cache') =
              SubSeq(KeySeq(videos_cache), n + 1, Len(videos_cache)) \o <<ck>>
         /\ n > 0 => Len(videos_cache') = MAX_VIDEO_CACHE_SIZE
         /\ \A i \in 1..(Len(videos_cache) - n) :
              videos_cache'[i] = videos_cache[n + i]

C28_LookupSameSource ==
  [][\A msg_id \in MsgIds, entity_id \in Sources :
       api_thumb(msg_id, entity_id)
       => \/ response' = <<"thumb", NoMessage>>
          \/ response' = <<"thumb", [source |-> entity_id, id |-> msg_id]>>]_vars

\* The step starts a reconnect attempt.
AttemptStarts == attempts' = attempts + 1

\* Callers are serialised and attempts are spaced: at most one caller is
\* inside the attempt, an attempt starts no sooner than RECONNECT_BACKOFF
\* after the start of the one before, and a call made while the client is
\* not connected and the backoff runs returns False and starts no attempt.
BackoffKept ==
  /\ Cardinality(Attempting') <= 1
  /\ AttemptStarts => clock - last_reconnect_attempt >= RECONNECT_BACKOFF
  /\ \A c \in Callers :
       (/\ callers[c].pc = "out"
        /\ callers'[c] # callers[c]
        /\ ~is_connected
        /\ InBackoff)
       => /\ callers'[c] = Returned(FALSE)
          /\ ~AttemptStarts

\* C29: with any number of threads in ensure_tg_connection, at most one
\* reconnect attempt is in flight at a time, the starts of two consecutive
\* attempts are at least 8 seconds apart, and a call made inside the backoff
\* window returns False without an attempt.
C29_OneSpacedReconnect ==
  [][attempts' <= 1 /\ BackoffKept]_vars

\* The step is the directory setup failing in an executor that took a slot.
SetupFails == \E t \in BagToSet(threads) : acquire_slot(t, FALSE)

\* What the executor does from the failed setup to its return: the step that
\* fails writes nothing but the counter and leads to the release, the release
\* takes the increment back and leads to the drain, and the drain touches only
\* the records of entries it leaves in the queue. None of the three fetches.
AbandonsBatch ==
  /\ SetupFails =>
       /\ download_status' = download_status
       /\ active_downloads' = active_downloads + 1
       /\ CopiesIn(Releasing, threads') = CopiesIn(Releasing, threads) + 1
       /\ BagCardinality(threads') = BagCardinality(threads)
       /\ UNCHANGED <<fetched, files, download_queue, download_cancel>>
  /\ \A t \in BagToSet(threads) :
       /\ release_slot(t) =>
            /\ download_status' = download_status
            /\ active_downloads' = active_downloads - 1
            /\ threads' = (threads (-) One(Releasing)) (+) One(Draining)
            /\ UNCHANGED <<fetched, files>>
       /\ process_queue(t) =>
            /\ UNCHANGED <<fetched, files, active_downloads>>
            /\ \A tid \in DOMAIN download_status :
                 tid \notin Range(download_queue') =>
                   download_status'[tid] = download_status[tid]
  /\ fetched' # fetched => \E t \in BagToSet(threads) : t.pc = "task"

\* C30: when the directory setup fails in an executor, the executor changes
\* no task record of its batch, takes back the increment of the active count
\* it made, runs the drain (which renumbers only entries still queued), and
\* returns without a call of the external fetch.
C30_SetupFailureAbandons == [][AbandonsBatch]_vars

\* Every executor has returned, nothing was fetched, every slot is free and
\* the queue is empty, yet a task that was popped is still recorded as queued:
\* its executor failed at the directory setup and abandoned it.
C30_Witness ==
  /\ threads = EmptyBag
  /\ requests = EmptyBag
  /\ download_queue = <<>>
  /\ active_downloads = 0
  /\ fetched = {}
  /\ \E tid \in DOMAIN download_status : download_status[tid].status = "queued"

\* The entries of the queue q are pairwise of different task ids.
NoDuplicates(q) == \A i, j \in DOMAIN q : q[i] = q[j] => i = j

\* C33: in every reachable state no task id appears more than once in
\* download_queue, also after an id already queued is submitted or retried
\* again.
C33_QueueHasNoDuplicates == NoDuplicates(download_queue)

\* The executor thread t is between the "downloading" record of tid and the
\* end of its transfer (l.830-910): it writes the record and the file of tid.
Processes(t, tid) == t.pc = "xfer" /\ CurrentTask(t) = tid

\* At most one executor thread processes tid.
OneExecutor(tid) ==
  \A t, u \in BagToSet(threads) :
    (Processes(t, tid) /\ Processes(u, tid)) =>
      /\ t = u
      /\ CopiesIn(t, threads) = 1

\* C32: at no time do two executors process the same task id (and so write
\* the same record and the same file), whatever submits, retries and cancels
\* are applied to that id.
C32_OneExecutorPerTask == \A tid \in TaskIds : OneExecutor(tid)

\* The step pops an entry of the queue and starts its executor thread.
Pops == \E t \in BagToSet(threads) : process_queue(t) /\ CanPop

\* C31: whenever the queue is non-empty and a slot is free, an entry of the
\* queue is popped and dispatched in the end, when every transfer terminates
\* and every thread keeps running: no run stays from some state on with an
\* entry in the queue and a free slot without popping again and again.
C31_QueuedEventuallyPopped == []<>(~CanPop) \/ []<><<Pops>>_vars

====
